---- MODULE Spec2Model ----
(***************************************************************************)
(* Model of python/influx/influx_client.py (class InfluxClient): the       *)
(* insert buffer, flush_insert_buffer, the metrics feedback, selection     *)
(* queries, connect/disconnect and the retention-policy / continuous-query *)
(* reconciliation.                                                         *)
(*                                                                         *)
(* Every public method is one action.  The driver (InfluxDBClient) is the  *)
(* environment: each of its calls gets an outcome chosen by the action's   *)
(* \E, and the call is appended to `trace` together with the insert buffer *)
(* as it was at the moment of the call.  `trace` holds the driver calls of *)
(* the last method call only, `last` describes that method call.           *)
(***************************************************************************)
EXTENDS Integers, Sequences, FiniteSets, TLC

VARIABLES
    insert_buffer,  \* InfluxClient.__insert_buffer: ordered dict Table -> list of InsertQuery
    client,         \* per instance: state of self.__client
    nextId,         \* identity of the next ingested row
    trace,          \* driver calls (and flush entries/exits) of the last method call
    last,           \* the last method call: name, instance, arguments, raised error
    catalog,        \* per instance: database.retention_policies / continuous_queries
    server,         \* the influx server: retention policies and continuous queries
    converged,      \* which reconciliation passes have completed without error
    written,        \* per ingested row: the write requests it has been part of
    timeout         \* per instance: self.__client._timeout

vars == <<insert_buffer, client, nextId, trace, last, catalog, server, converged, written,
          timeout>>

(***************************************************************************)
(* Bounds of the model.                                                    *)
(***************************************************************************)
MaxId == 2           \* rows ingested in one behaviour of Spec
MaxRows == 2         \* rows of one insert_dicts_to_buffer call
MaxMetrics == 1      \* a query starts with fewer pending metrics records than this
SafeguardMaxId == 7  \* rows ingested in one behaviour of SpecSafeguard

\* The measured durations (end_time - start_time, positive) and the numbers
\* of rows of a query result the environment chooses from.
Durations == {1}
Lengths == {0, 1, 2}

\* __query_max_batch_size (10000 in the source), scaled down so that the
\* safeguard of insert_dicts_to_buffer (5 * batch size) is within reach.
query_max_batch_size == 1

Clients == {"c1", "c2"}
TableNames == {"A", "B"}
MetricsTableName == "influx_metrics"

\* A Table object of the instance's own Database; a dict key by identity.
Table(c, name) == [owner |-> c, name |-> name]

\* self.__metrics_table
metrics_table(c) == Table(c, MetricsTableName)

\* Outcomes of one driver call: normal return or one of the three error
\* classes the driver raises.
OK == "ok"
ClientError == "InfluxDBClientError"
ServerError == "InfluxDBServerError"
TransportError == "ConnectionError"
Outcomes == {OK, ClientError, ServerError, TransportError}

NoError == "none"
ValueError == "ValueError"

\* The timeout of the driver client: none before connect, 20 s from connect,
\* 7200 s while transfer_data runs.
NoTimeout == 0
ConnectTimeout == 20
TransferTimeout == 7200

Keywords == {"SELECT", "DELETE"}
INSERT == "INSERT"

(***************************************************************************)
(* Sequences and the ordered dict.                                         *)
(***************************************************************************)
Max(a, b) == IF a >= b THEN a ELSE b

\* table in self.__insert_buffer
HasKey(buf, t) == \E i \in 1..Len(buf) : buf[i].table = t

\* self.__insert_buffer.get(table, default)
BufferGet(buf, t, default) ==
    IF HasKey(buf, t)
    THEN buf[CHOOSE i \in 1..Len(buf) : buf[i].table = t].queries
    ELSE default

\* self.__insert_buffer[table] = queries  (a new key goes last)
BufferSet(buf, t, qs) ==
    IF HasKey(buf, t)
    THEN [i \in 1..Len(buf) |->
            IF buf[i].table = t THEN [table |-> t, queries |-> qs] ELSE buf[i]]
    ELSE Append(buf, [table |-> t, queries |-> qs])

EmptyBuffer == <<>>

(***************************************************************************)
(* InsertQuery and its line.                                               *)
(***************************************************************************)
\* InsertQuery(table, fields, tags, time_stamp); the time stamp is left out.
InsertQuery(table, fields, tags) == [table |-> table, fields |-> fields, tags |-> tags]

\* InsertQuery.to_query(): the line of the write protocol
\* (measurement, tag set, field set).
to_query(q) == <<q.table.name, q.tags, q.fields>>

\* One driver call or flush entry/exit, with the buffer as it is at that moment.
Event(ev, c, name, arg, outcome, buf) ==
    [ev |-> ev, c |-> c, name |-> name, arg |-> arg, outcome |-> outcome, buf |-> buf]

\* A driver call between two readings of time.perf_counter(): duration is
\* end_time - start_time.
TimedEvent(ev, c, name, arg, outcome, buf, duration) ==
    [ev |-> ev, c |-> c, name |-> name, arg |-> arg, outcome |-> outcome, buf |-> buf,
     duration |-> duration]

\* The lines of ingested rows carry the row's identity as their only field.
IsRowLine(line) == Len(line[3]) = 1
RowId(line) == line[3][1]

\* The write requests of tr that hold the line of row id.
RequestsOf(tr, id) ==
    {j \in 1..Len(tr) :
        /\ tr[j].ev = "write_points"
        /\ \E p \in 1..Len(tr[j].arg) :
              IsRowLine(tr[j].arg[p]) /\ RowId(tr[j].arg[p]) = id}

\* `written` after a method call with driver calls tr, n rows ingested so far.
Written(w, tr, n) ==
    [id \in 1..n |->
        LET old == IF id \in DOMAIN w THEN w[id] ELSE [requests |-> 0, failed |-> FALSE]
        IN  [requests |-> old.requests + Cardinality(RequestsOf(tr, id)),
             failed |-> old.failed \/ \E j \in RequestsOf(tr, id) : tr[j].outcome # OK]]

(***************************************************************************)
(* __insert_metrics_to_buffer                                              *)
(***************************************************************************)
\* tables_count is a dict in insertion order: a sequence of [table, count].
\* duration_ms = duration * (max(item_count, 1) / batch_size); the division
\* is exact for every call of the class (batch_size = item_count or 1).
MetricsQuery(c, keyword, tc, duration, batch_size) ==
    InsertQuery(metrics_table(c),
                <<(duration * Max(tc.count, 1)) \div batch_size, tc.count>>,
                <<keyword, tc.table.name>>)

\* Mutant: the new metrics records replace the pending ones.
InsertMetricsToBuffer_Overwrite(c, buf, keyword, tables_count, duration, batch_size) ==
    IF tables_count = <<>> \/ duration <= 0 \/ batch_size < 1
    THEN [raised |-> ValueError, buf |-> buf]
    ELSE LET querys == [i \in 1..Len(tables_count) |->
                          MetricsQuery(c, keyword, tables_count[i], duration, batch_size)]
         IN  [raised |-> NoError,
              buf |-> BufferSet(buf, metrics_table(c), querys)]

InsertMetricsToBuffer(c, buf, keyword, tables_count, duration, batch_size) ==
    IF tables_count = <<>> \/ duration <= 0 \/ batch_size < 1
    THEN [raised |-> ValueError, buf |-> buf]
    ELSE LET querys == [i \in 1..Len(tables_count) |->
                          MetricsQuery(c, keyword, tables_count[i], duration, batch_size)]
         IN  [raised |-> NoError,
              buf |-> BufferSet(buf, metrics_table(c),
                                BufferGet(buf, metrics_table(c), <<>>) \o querys)]

(***************************************************************************)
(* flush_insert_buffer                                                     *)
(***************************************************************************)
\* Mutant: the records of a write request the server or the driver rejected
\* are put back into the buffer.
RECURSIVE FlushLoop_Requeue(_, _, _, _, _, _, _)
FlushLoop_Requeue(c, insert_list, i, buf, tr, outs, durs) ==
    IF i > Len(insert_list)
    THEN [buf |-> buf, raised |-> NoError,
          trace |-> Append(tr, Event("flush_exit", c, "", <<>>, NoError, buf))]
    ELSE LET e == insert_list[i]
             tr1 == Append(tr, TimedEvent("write_points", c, e.table, e.queries_str, outs[i],
                                         buf, durs[i]))
             buf1 == IF outs[i] \in {ClientError, ServerError}
                     THEN BufferSet(buf, e.table,
                                    [j \in 1..Len(e.queries_str) |->
                                        InsertQuery(e.table, e.queries_str[j][3],
                                                    e.queries_str[j][2])])
                     ELSE buf
         IN  IF outs[i] = TransportError
             THEN [buf |-> buf, raised |-> TransportError,
                   trace |-> Append(tr1, Event("flush_exit", c, "", <<>>, TransportError, buf))]
             ELSE LET m == InsertMetricsToBuffer(c, buf1, INSERT,
                                <<[table |-> e.table, count |-> Len(e.queries_str)]>>,
                                durs[i], Len(e.queries_str))
                  IN  IF m.raised # NoError
                      THEN [buf |-> m.buf, raised |-> m.raised,
                            trace |-> Append(tr1, Event("flush_exit", c, "", <<>>, m.raised, m.buf))]
                      ELSE FlushLoop_Requeue(c, insert_list, i + 1, m.buf, tr1, outs, durs)

\* The loop over insert_list from entry i on.  outs[i] and durs[i] are the
\* outcome of write_points and the measured duration for entry i.
RECURSIVE FlushLoop(_, _, _, _, _, _, _)
FlushLoop(c, insert_list, i, buf, tr, outs, durs) ==
    IF i > Len(insert_list)
    THEN [buf |-> buf, raised |-> NoError,
          trace |-> Append(tr, Event("flush_exit", c, "", <<>>, NoError, buf))]
    ELSE LET e == insert_list[i]
             tr1 == Append(tr, TimedEvent("write_points", c, e.table, e.queries_str, outs[i],
                                         buf, durs[i]))
         IN  IF outs[i] = TransportError
             THEN [buf |-> buf, raised |-> TransportError,
                   trace |-> Append(tr1, Event("flush_exit", c, "", <<>>, TransportError, buf))]
             ELSE LET m == InsertMetricsToBuffer(c, buf, INSERT,
                                <<[table |-> e.table, count |-> Len(e.queries_str)]>>,
                                durs[i], Len(e.queries_str))
                  IN  IF m.raised # NoError
                      THEN [buf |-> m.buf, raised |-> m.raised,
                            trace |-> Append(tr1, Event("flush_exit", c, "", <<>>, m.raised, m.buf))]
                      ELSE FlushLoop(c, insert_list, i + 1, m.buf, tr1, outs, durs)

\* Mutant: the buffer is not cleared before the write requests.
FlushInsertBuffer_NoClear(c, buf, tr, outs, durs) ==
    LET tr0 == Append(tr, Event("flush_enter", c, "", <<>>, OK, buf))
    IN  IF buf = EmptyBuffer
        THEN [buf |-> buf, raised |-> NoError,
              trace |-> Append(tr0, Event("flush_exit", c, "", <<>>, NoError, buf))]
        ELSE LET insert_list ==
                     [i \in 1..Len(buf) |->
                        [table |-> buf[i].table,
                         queries_str |-> [j \in 1..Len(buf[i].queries) |->
                                            to_query(buf[i].queries[j])]]]
             IN  FlushLoop(c, insert_list, 1, buf, tr0, outs, durs)

\* Mutant: a flush of the empty buffer records a metrics record of its own.
FlushInsertBuffer_EmptyMetrics(c, buf, tr, outs, durs) ==
    LET tr0 == Append(tr, Event("flush_enter", c, "", <<>>, OK, buf))
    IN  IF buf = EmptyBuffer
        THEN LET m == InsertMetricsToBuffer(c, buf, INSERT,
                          <<[table |-> metrics_table(c), count |-> 0]>>, 1, 1)
             IN  [buf |-> m.buf, raised |-> NoError,
                  trace |-> Append(tr0, Event("flush_exit", c, "", <<>>, NoError, m.buf))]
        ELSE LET insert_list ==
                     [i \in 1..Len(buf) |->
                        [table |-> buf[i].table,
                         queries_str |-> [j \in 1..Len(buf[i].queries) |->
                                            to_query(buf[i].queries[j])]]]
             IN  FlushLoop(c, insert_list, 1, EmptyBuffer, tr0, outs, durs)

FlushInsertBuffer(c, buf, tr, outs, durs) ==
    LET tr0 == Append(tr, Event("flush_enter", c, "", <<>>, OK, buf))
    IN  IF buf = EmptyBuffer
        THEN [buf |-> buf, raised |-> NoError,
              trace |-> Append(tr0, Event("flush_exit", c, "", <<>>, NoError, buf))]
        ELSE LET insert_list ==
                     [i \in 1..Len(buf) |->
                        [table |-> buf[i].table,
                         queries_str |-> [j \in 1..Len(buf[i].queries) |->
                                            to_query(buf[i].queries[j])]]]
             IN  FlushLoop(c, insert_list, 1, EmptyBuffer, tr0, outs, durs)

\* The environment's choices for one flush of buffer buf.
FlushOutcomes(buf) == [1..Len(buf) -> Outcomes]
FlushDurations(buf) == [1..Len(buf) -> Durations]

(***************************************************************************)
(* The method calls.                                                       *)
(***************************************************************************)
\* The arguments of a method call, as recorded in `last`.
NoArgs == [table_name |-> "", isNone |-> FALSE, rows |-> <<>>,
           tables |-> <<>>, keyword |-> "", length |-> 0,
           message |-> "", converged |-> [rp |-> FALSE, cq |-> FALSE],
           server |-> [rps |-> {}, cqs |-> {}], timeout |-> NoTimeout]

Last(op, c, raised, before, args) ==
    [op |-> op, c |-> c, raised |-> raised, before |-> before, args |-> args]

\* No method call is open: the caller has taken the result of the last one.
Idle == last.op = ""

\* The rows of one insert_dicts_to_buffer call: valid[i] tells whether
\* table.split_by_table_def / InsertQuery accept row i (no ValueError).
Rows(valid) == [i \in 1..Len(valid) |-> [id |-> nextId + i - 1, valid |-> valid[i]]]

RowChoices == UNION {[1..n -> BOOLEAN] : n \in 0..MaxRows}

\* The loop of insert_dicts_to_buffer: one InsertQuery per accepted row.
RECURSIVE QueryBuffer(_, _)
QueryBuffer(table, rows) ==
    IF rows = <<>> THEN <<>>
    ELSE IF Head(rows).valid
         THEN <<InsertQuery(table, <<Head(rows).id>>, <<>>)>> \o QueryBuffer(table, Tail(rows))
         ELSE QueryBuffer(table, Tail(rows))

\* The safeguard of insert_dicts_to_buffer.
SafeguardTrips(buf, table) ==
    Len(BufferGet(buf, table, <<>>)) > 5 * query_max_batch_size

\* Mutant: the new queries are put in front of the pending ones.
InsertDictsToBuffer_Prepend(c, table_name, isNone, valid) ==
    /\ Idle
    /\ client[c] = "open"
    /\ LET rows == Rows(valid)
           args == [NoArgs EXCEPT !.table_name = table_name, !.isNone = isNone, !.rows = rows]
           table == Table(c, table_name)
           buf1 == BufferSet(insert_buffer, table,
                             QueryBuffer(table, rows) \o BufferGet(insert_buffer, table, <<>>))
       IN  IF isNone \/ table_name = ""
           THEN /\ isNone => valid = <<>>
                /\ last' = Last("insert_dicts_to_buffer", c, ValueError, insert_buffer, args)
                /\ trace' = <<>>
                /\ UNCHANGED <<insert_buffer, nextId>>
           ELSE IF rows = <<>>
           THEN /\ last' = Last("insert_dicts_to_buffer", c, NoError, insert_buffer, args)
                /\ trace' = <<>>
                /\ UNCHANGED <<insert_buffer, nextId>>
           ELSE IF SafeguardTrips(buf1, table)
           THEN \E outs \in FlushOutcomes(buf1), durs \in FlushDurations(buf1) :
                  LET f == FlushInsertBuffer(c, buf1, <<>>, outs, durs)
                  IN  /\ insert_buffer' = f.buf
                      /\ trace' = f.trace
                      /\ last' = Last("insert_dicts_to_buffer", c, f.raised, insert_buffer, args)
                      /\ nextId' = nextId + Len(rows)
           ELSE /\ insert_buffer' = buf1
                /\ trace' = <<>>
                /\ last' = Last("insert_dicts_to_buffer", c, NoError, insert_buffer, args)
                /\ nextId' = nextId + Len(rows)
    /\ written' = Written(written, trace', nextId' - 1)
    /\ UNCHANGED <<client, catalog, server, converged, timeout>>

\* Mutant: an empty list is not returned early.
InsertDictsToBuffer_NoEarlyReturn(c, table_name, isNone, valid) ==
    /\ Idle
    /\ client[c] = "open"
    /\ LET rows == Rows(valid)
           args == [NoArgs EXCEPT !.table_name = table_name, !.isNone = isNone, !.rows = rows]
           table == Table(c, table_name)
           buf1 == BufferSet(insert_buffer, table,
                             BufferGet(insert_buffer, table, <<>>) \o QueryBuffer(table, rows))
       IN  IF isNone \/ table_name = ""
           THEN /\ isNone => valid = <<>>
                /\ last' = Last("insert_dicts_to_buffer", c, ValueError, insert_buffer, args)
                /\ trace' = <<>>
                /\ UNCHANGED <<insert_buffer, nextId>>
           ELSE IF SafeguardTrips(buf1, table)
           THEN \E outs \in FlushOutcomes(buf1), durs \in FlushDurations(buf1) :
                  LET f == FlushInsertBuffer(c, buf1, <<>>, outs, durs)
                  IN  /\ insert_buffer' = f.buf
                      /\ trace' = f.trace
                      /\ last' = Last("insert_dicts_to_buffer", c, f.raised, insert_buffer, args)
                      /\ nextId' = nextId + Len(rows)
           ELSE /\ insert_buffer' = buf1
                /\ trace' = <<>>
                /\ last' = Last("insert_dicts_to_buffer", c, NoError, insert_buffer, args)
                /\ nextId' = nextId + Len(rows)
    /\ written' = Written(written, trace', nextId' - 1)
    /\ UNCHANGED <<client, catalog, server, converged, timeout>>

\* insert_dicts_to_buffer(table_name, list_with_dicts)
InsertDictsToBuffer(c, table_name, isNone, valid) ==
    /\ Idle
    /\ client[c] = "open"
    /\ LET rows == Rows(valid)
           args == [NoArgs EXCEPT !.table_name = table_name, !.isNone = isNone, !.rows = rows]
           table == Table(c, table_name)
           buf1 == BufferSet(insert_buffer, table,
                             BufferGet(insert_buffer, table, <<>>) \o QueryBuffer(table, rows))
       IN  IF isNone \/ table_name = ""
           THEN /\ isNone => valid = <<>>
                /\ last' = Last("insert_dicts_to_buffer", c, ValueError, insert_buffer, args)
                /\ trace' = <<>>
                /\ UNCHANGED <<insert_buffer, nextId>>
           ELSE IF rows = <<>>
           THEN /\ last' = Last("insert_dicts_to_buffer", c, NoError, insert_buffer, args)
                /\ trace' = <<>>
                /\ UNCHANGED <<insert_buffer, nextId>>
           ELSE IF SafeguardTrips(buf1, table)
           THEN \E outs \in FlushOutcomes(buf1), durs \in FlushDurations(buf1) :
                  LET f == FlushInsertBuffer(c, buf1, <<>>, outs, durs)
                  IN  /\ insert_buffer' = f.buf
                      /\ trace' = f.trace
                      /\ last' = Last("insert_dicts_to_buffer", c, f.raised, insert_buffer, args)
                      /\ nextId' = nextId + Len(rows)
           ELSE /\ insert_buffer' = buf1
                /\ trace' = <<>>
                /\ last' = Last("insert_dicts_to_buffer", c, NoError, insert_buffer, args)
                /\ nextId' = nextId + Len(rows)
    /\ written' = Written(written, trace', nextId' - 1)
    /\ UNCHANGED <<client, catalog, server, converged, timeout>>

\* flush_insert_buffer() called by the application
Flush(c) ==
    /\ Idle
    /\ client[c] = "open"
    /\ \E outs \in FlushOutcomes(insert_buffer), durs \in FlushDurations(insert_buffer) :
         LET f == FlushInsertBuffer(c, insert_buffer, <<>>, outs, durs)
         IN  /\ insert_buffer' = f.buf
             /\ trace' = f.trace
             /\ last' = Last("flush_insert_buffer", c, f.raised, insert_buffer, NoArgs)
    /\ written' = Written(written, trace', nextId - 1)
    /\ UNCHANGED <<client, nextId, catalog, server, converged, timeout>>

\* The tables of a SelectionQuery, by name.
QueryTables == {<<"A">>, <<"B">>, <<"A", "B">>, <<MetricsTableName>>}

\* for table in query.tables: if table in self.__insert_buffer
AnyTableBuffered(c, buf, tables) ==
    \E i \in 1..Len(tables) : HasKey(buf, Table(c, tables[i]))

\* The part of send_selection_query after the flush: the query request,
\* the result length and the metrics record.
QueryAndMetrics(c, buf, tr, keyword, tables, outcome, length, duration) ==
    LET tr1 == Append(tr, TimedEvent("query", c, keyword, tables, outcome, buf, duration))
    IN  IF outcome = TransportError
        THEN [buf |-> buf, raised |-> TransportError, trace |-> tr1, length |-> 0]
        ELSE LET len == IF outcome = OK THEN length ELSE 0
                 tables_count == [i \in 1..Len(tables) |->
                                    [table |-> Table(c, tables[i]),
                                     count |-> len \div Len(tables)]]
                 m == InsertMetricsToBuffer(c, buf, keyword, tables_count, duration, 1)
             IN  [buf |-> m.buf, raised |-> m.raised, trace |-> tr1, length |-> len]

\* send_selection_query(query)
SendSelectionQuery(c, keyword, tables, outcome, length, duration) ==
    /\ Idle
    /\ client[c] = "open"
    /\ keyword = "DELETE" => length = 0
    /\ outcome # OK => length = 0
    /\ LET args == [NoArgs EXCEPT !.tables = tables, !.keyword = keyword]
       IN  IF AnyTableBuffered(c, insert_buffer, tables)
           THEN \E outs \in FlushOutcomes(insert_buffer),
                   durs \in FlushDurations(insert_buffer) :
                  LET f == FlushInsertBuffer(c, insert_buffer, <<>>, outs, durs)
                      q == QueryAndMetrics(c, f.buf, f.trace, keyword, tables,
                                           outcome, length, duration)
                  IN  IF f.raised # NoError
                      THEN /\ outcome = OK /\ length = 0
                           /\ insert_buffer' = f.buf
                           /\ trace' = f.trace
                           /\ last' = Last("send_selection_query", c, f.raised,
                                           insert_buffer, args)
                      ELSE /\ insert_buffer' = q.buf
                           /\ trace' = q.trace
                           /\ last' = Last("send_selection_query", c, q.raised, insert_buffer,
                                           [args EXCEPT !.length = q.length])
           ELSE LET q == QueryAndMetrics(c, insert_buffer, <<>>, keyword, tables,
                                         outcome, length, duration)
                IN  /\ insert_buffer' = q.buf
                    /\ trace' = q.trace
                    /\ last' = Last("send_selection_query", c, q.raised, insert_buffer,
                                    [args EXCEPT !.length = q.length])
    /\ written' = Written(written, trace', nextId - 1)
    /\ UNCHANGED <<client, nextId, catalog, server, converged, timeout>>

\* disconnect(): two flushes inside try/except ValueError, then close().
Disconnect(c) ==
    /\ Idle
    /\ client[c] = "open"
    /\ \E outs1 \in FlushOutcomes(insert_buffer), durs1 \in FlushDurations(insert_buffer) :
         LET f1 == FlushInsertBuffer(c, insert_buffer, <<>>, outs1, durs1)
         IN  IF f1.raised = TransportError
             THEN /\ insert_buffer' = f1.buf
                  /\ trace' = f1.trace
                  /\ last' = Last("disconnect", c, TransportError, insert_buffer, NoArgs)
                  /\ UNCHANGED client
             ELSE IF f1.raised = ValueError
             THEN /\ insert_buffer' = f1.buf
                  /\ trace' = Append(f1.trace, Event("close", c, "", <<>>, OK, f1.buf))
                  /\ last' = Last("disconnect", c, NoError, insert_buffer, NoArgs)
                  /\ client' = [client EXCEPT ![c] = "closed"]
             ELSE \E outs2 \in FlushOutcomes(f1.buf), durs2 \in FlushDurations(f1.buf) :
                    LET f2 == FlushInsertBuffer(c, f1.buf, f1.trace, outs2, durs2)
                    IN  IF f2.raised = TransportError
                        THEN /\ insert_buffer' = f2.buf
                             /\ trace' = f2.trace
                             /\ last' = Last("disconnect", c, TransportError,
                                             insert_buffer, NoArgs)
                             /\ UNCHANGED client
                        ELSE /\ insert_buffer' = f2.buf
                             /\ trace' = Append(f2.trace,
                                                Event("close", c, "", <<>>, OK, f2.buf))
                             /\ last' = Last("disconnect", c, NoError, insert_buffer, NoArgs)
                             /\ client' = [client EXCEPT ![c] = "closed"]
    /\ written' = Written(written, trace', nextId - 1)
    /\ UNCHANGED <<nextId, catalog, server, converged, timeout>>

(***************************************************************************)
(* transfer_data                                                           *)
(***************************************************************************)
\* Outcomes of one SELECT INTO request: the client error is told apart by
\* its text (partial write with dropped=10000, partial write, anything else).
CriticalPartialWrite == "partial write: points beyond retention policy dropped=10000"
PartialWrite == "partial write: points beyond retention policy dropped="
TransferOutcomes ==
    {OK, CriticalPartialWrite, PartialWrite, ClientError, ServerError, TransportError}

\* The loop over the queries from the i-th on: the critical partial write
\* raises ValueError, every other error is counted and the loop goes on.
RECURSIVE TransferLoop(_, _, _, _)
TransferLoop(c, outs, i, tr) ==
    IF i > Len(outs)
    THEN [raised |-> NoError, trace |-> tr]
    ELSE LET tr1 == Append(tr, Event("transfer_query", c, "", i, outs[i], insert_buffer))
         IN  IF outs[i] = CriticalPartialWrite
             THEN [raised |-> ValueError, trace |-> tr1]
             ELSE TransferLoop(c, outs, i + 1, tr1)

\* transfer_data(): matches tells whether every continuous query matches
\* the FROM pattern, ping1 and ping2 are the outcomes of the two pings, outs
\* the outcomes of the queries.
TransferData(c, matches, ping1, outs, ping2) ==
    /\ Idle
    /\ client[c] = "open"
    /\ LET old_timeout == timeout[c]
           args == [NoArgs EXCEPT !.timeout = old_timeout]
           tr0 == <<Event("ping", c, "", <<>>, ping1, insert_buffer)>>
           l == TransferLoop(c, outs, 1, tr0)
       IN  IF ~matches
           THEN /\ ping1 = OK /\ ping2 = OK /\ outs = <<>>
                /\ trace' = <<>>
                /\ last' = Last("transfer_data", c, ValueError, insert_buffer, args)
                /\ UNCHANGED timeout
           ELSE IF ping1 # OK
           THEN /\ ping2 = OK /\ outs = <<>>
                /\ trace' = tr0
                /\ last' = Last("transfer_data", c, ping1, insert_buffer, args)
                /\ timeout' = [timeout EXCEPT ![c] = TransferTimeout]
           ELSE IF l.raised # NoError
           THEN /\ ping2 = OK
                /\ trace' = l.trace
                /\ last' = Last("transfer_data", c, l.raised, insert_buffer, args)
                /\ timeout' = [timeout EXCEPT ![c] = TransferTimeout]
           ELSE /\ trace' = Append(l.trace,
                                   Event("ping", c, "", <<>>, ping2, insert_buffer))
                /\ last' = Last("transfer_data", c,
                                IF ping2 = OK THEN NoError ELSE ping2, insert_buffer, args)
                /\ timeout' = [timeout EXCEPT ![c] = old_timeout]
    /\ UNCHANGED <<insert_buffer, client, nextId, catalog, server, converged, written>>

(***************************************************************************)
(* The buffer specification: connected instances ingest, flush, query and  *)
(* disconnect.                                                             *)
(***************************************************************************)
NoCall == Last("", "", NoError, EmptyBuffer, NoArgs)

\* The method call returns (or its error reaches the caller); the record of
\* the call is dropped.
Return ==
    /\ ~Idle
    /\ last' = NoCall
    /\ trace' = <<>>
    /\ UNCHANGED <<insert_buffer, client, nextId, catalog, server, converged, written,
                   timeout>>

NoCatalog == [rps |-> <<>>, cqs |-> <<>>]
NoServer == [rps |-> {}, cqs |-> {}]
Init ==
    /\ insert_buffer = EmptyBuffer
    /\ client = [c \in Clients |-> "open"]
    /\ nextId = 1
    /\ trace = <<>>
    /\ last = NoCall
    /\ catalog = [c \in Clients |-> NoCatalog]
    /\ server = NoServer
    /\ converged = [rp |-> FALSE, cq |-> FALSE]
    /\ written = <<>>
    /\ timeout = [c \in Clients |-> ConnectTimeout]

\* The application ingests rows, flushes, queries and disconnects.
Ingest(c) ==
    \E t \in TableNames, valid \in RowChoices \ {<<>>} :
        /\ nextId + Len(valid) - 1 <= MaxId
        /\ InsertDictsToBuffer(c, t, FALSE, valid)

Query(c) ==
    \E k \in Keywords, ts \in QueryTables, o \in Outcomes,
       len \in Lengths, d \in Durations :
        /\ Len(BufferGet(insert_buffer, metrics_table(c), <<>>)) < MaxMetrics
        /\ SendSelectionQuery(c, k, ts, o, len, d)

Next ==
    \/ Ingest("c1")
    \/ Flush("c1")
    \/ Disconnect("c1")
    \/ Return

Spec == Init /\ [][Next]_vars

(***************************************************************************)
(* The query specification: a connected instance ingests, flushes and      *)
(* sends selection queries.                                                *)
(***************************************************************************)
NextQuery ==
    \/ Ingest("c1")
    \/ Flush("c1")
    \/ Query("c1")
    \/ Return

SpecQuery == Init /\ [][NextQuery]_vars

(***************************************************************************)
(* Retention policies, continuous queries and the server.                  *)
(***************************************************************************)
DatabaseName == "db"
RpNames == {"rp1", "rp2"}
CqNames == {"cq1", "cq2"}
RpDurations == {"1d", "2d"}
Selects == {"s1", "s2"}

\* A RetentionPolicy of the catalog.
RetentionPolicy(name, duration, default) ==
    [name |-> name, duration |-> duration, replication |-> 1,
     shard_duration |-> "1h", default |-> default]

\* A ContinuousQuery of the catalog.
ContinuousQuery(name, select) ==
    [name |-> name, select |-> select, resample_opts |-> ""]

\* RetentionPolicy.to_dict(): the policy in the form of the server's description.
rp_to_dict(rp) ==
    [name |-> rp.name, duration |-> rp.duration,
     shardGroupDuration |-> rp.shard_duration, replicaN |-> rp.replication,
     default |-> rp.default]

\* ContinuousQuery.to_query(): the rendered form of the query.
cq_to_query(cq) == <<"CREATE CONTINUOUS QUERY", cq.name, DatabaseName, cq.resample_opts, cq.select>>

\* The server's description of a policy created or altered with these arguments.
ServerRp(name, a) ==
    [name |-> name, duration |-> a.duration, shardGroupDuration |-> a.shard_duration,
     replicaN |-> a.replication, default |-> a.default]

\* The server's description of a continuous query created with these arguments.
ServerCq(name, a) ==
    [name |-> name,
     query |-> <<"CREATE CONTINUOUS QUERY", name, a.database, a.resample_opts, a.select>>]

\* A reconciliation pass has listed the server's state in tr.
RanRp(tr) == \E j \in 1..Len(tr) : tr[j].ev = "get_list_retention_policies"
RanCq(tr) == \E j \in 1..Len(tr) : tr[j].ev = "get_list_continuous_queries"

\* One driver call: its name, the name of its object and its arguments.
Call(ev, name, arg) == [ev |-> ev, name |-> name, arg |-> arg]

\* A server that applies the operation of a driver call.
ServerApply(srv, call) ==
    IF call.ev \in {"create_retention_policy", "alter_retention_policy"}
    THEN [srv EXCEPT !.rps = {r \in @ : r.name # call.name} \cup {ServerRp(call.name, call.arg)}]
    ELSE IF call.ev = "drop_continuous_query"
    THEN [srv EXCEPT !.cqs = {q \in @ : q.name # call.name}]
    ELSE IF call.ev = "create_continuous_query"
    THEN [srv EXCEPT !.cqs = {q \in @ : q.name # call.name} \cup {ServerCq(call.name, call.arg)}]
    ELSE srv

\* Mutant: the error of a driver call is swallowed and the calls go on.
RECURSIVE DriverCalls_GoOn(_, _, _, _, _, _, _)
DriverCalls_GoOn(c, calls, k, srv, tr, failAt, err) ==
    IF k > Len(calls)
    THEN [server |-> srv, trace |-> tr, raised |-> NoError]
    ELSE LET out == IF Len(tr) + 1 = failAt THEN err ELSE OK
             tr1 == Append(tr, Event(calls[k].ev, c, calls[k].name, calls[k].arg,
                                     out, insert_buffer))
         IN  DriverCalls_GoOn(c, calls, k + 1,
                              IF out = OK THEN ServerApply(srv, calls[k]) ELSE srv,
                              tr1, failAt, err)

\* The driver calls `calls` from the k-th on, in order.  The failAt-th driver
\* call of the method call raises err; the calls before it are applied.
RECURSIVE DriverCalls(_, _, _, _, _, _, _)
DriverCalls(c, calls, k, srv, tr, failAt, err) ==
    IF k > Len(calls)
    THEN [server |-> srv, trace |-> tr, raised |-> NoError]
    ELSE LET out == IF Len(tr) + 1 = failAt THEN err ELSE OK
             tr1 == Append(tr, Event(calls[k].ev, c, calls[k].name, calls[k].arg,
                                     out, insert_buffer))
         IN  IF out # OK
             THEN [server |-> srv, trace |-> tr1, raised |-> out]
             ELSE DriverCalls(c, calls, k + 1, ServerApply(srv, calls[k]), tr1, failAt, err)

(***************************************************************************)
(* check_create_rp                                                         *)
(***************************************************************************)
\* rp_dict.get(name, None) is not None
RpListed(results, name) == \E r \in results : r.name = name
RpGet(results, name) == CHOOSE r \in results : r.name = name

\* Mutant: a listed policy is altered without comparing it.
RECURSIVE RpWalk_NoCompare(_, _, _, _, _, _)
RpWalk_NoCompare(policies, i, results, default_used, add_rp_list, alter_rp_list) ==
    IF i > Len(policies)
    THEN [raised |-> NoError, add |-> add_rp_list, alter |-> alter_rp_list]
    ELSE LET rp == policies[i]
         IN  IF rp.default /\ default_used
             THEN [raised |-> ValueError, add |-> add_rp_list, alter |-> alter_rp_list]
             ELSE LET used == default_used \/ rp.default
                  IN  IF ~RpListed(results, rp.name)
                      THEN RpWalk_NoCompare(policies, i + 1, results, used,
                                            Append(add_rp_list, rp), alter_rp_list)
                      ELSE RpWalk_NoCompare(policies, i + 1, results, used,
                                            add_rp_list, Append(alter_rp_list, rp))

\* The loop over database.retention_policies from the i-th policy on.
RECURSIVE RpWalk(_, _, _, _, _, _)
RpWalk(policies, i, results, default_used, add_rp_list, alter_rp_list) ==
    IF i > Len(policies)
    THEN [raised |-> NoError, add |-> add_rp_list, alter |-> alter_rp_list]
    ELSE LET rp == policies[i]
         IN  IF rp.default /\ default_used
             THEN [raised |-> ValueError, add |-> add_rp_list, alter |-> alter_rp_list]
             ELSE LET used == default_used \/ rp.default
                  IN  IF ~RpListed(results, rp.name)
                      THEN RpWalk(policies, i + 1, results, used,
                                  Append(add_rp_list, rp), alter_rp_list)
                      ELSE IF RpGet(results, rp.name) # rp_to_dict(rp)
                      THEN RpWalk(policies, i + 1, results, used,
                                  add_rp_list, Append(alter_rp_list, rp))
                      ELSE RpWalk(policies, i + 1, results, used,
                                  add_rp_list, alter_rp_list)

RpCall(ev, rp) ==
    Call(ev, rp.name,
         [duration |-> rp.duration, replication |-> rp.replication,
          database |-> DatabaseName, default |-> rp.default,
          shard_duration |-> rp.shard_duration])

\* Mutant: the policies to alter are created instead.
CheckCreateRpRun_CreateOnly(c, srv, tr, failAt, err) ==
    LET l == DriverCalls(c, <<Call("get_list_retention_policies", DatabaseName, <<>>)>>,
                         1, srv, tr, failAt, err)
    IN  IF l.raised # NoError
        THEN [server |-> srv, trace |-> l.trace, raised |-> ValueError]
        ELSE LET w == RpWalk(catalog[c].rps, 1, srv.rps, FALSE, <<>>, <<>>)
             IN  IF w.raised # NoError
                 THEN [server |-> srv, trace |-> l.trace, raised |-> ValueError]
                 ELSE LET calls ==
                              [i \in 1..Len(w.add \o w.alter) |->
                                  RpCall("create_retention_policy", (w.add \o w.alter)[i])]
                          a == DriverCalls(c, calls, 1, l.server, l.trace, failAt, err)
                      IN  [server |-> a.server, trace |-> a.trace,
                           raised |-> IF a.raised = NoError THEN NoError ELSE ValueError]

\* check_create_rp(): every error ends it with ValueError.
CheckCreateRpRun(c, srv, tr, failAt, err) ==
    LET l == DriverCalls(c, <<Call("get_list_retention_policies", DatabaseName, <<>>)>>,
                         1, srv, tr, failAt, err)
    IN  IF l.raised # NoError
        THEN [server |-> srv, trace |-> l.trace, raised |-> ValueError]
        ELSE LET w == RpWalk(catalog[c].rps, 1, srv.rps, FALSE, <<>>, <<>>)
             IN  IF w.raised # NoError
                 THEN [server |-> srv, trace |-> l.trace, raised |-> ValueError]
                 ELSE LET calls ==
                              [i \in 1..Len(w.add) |->
                                  RpCall("create_retention_policy", w.add[i])]
                              \o [i \in 1..Len(w.alter) |->
                                  RpCall("alter_retention_policy", w.alter[i])]
                          a == DriverCalls(c, calls, 1, l.server, l.trace, failAt, err)
                      IN  [server |-> a.server, trace |-> a.trace,
                           raised |-> IF a.raised = NoError THEN NoError ELSE ValueError]

(***************************************************************************)
(* check_create_cq                                                         *)
(***************************************************************************)
CqListed(results, name) == \E q \in results : q.name = name
CqGet(results, name) == (CHOOSE q \in results : q.name = name).query

\* The loop over database.continuous_queries from the i-th query on.
RECURSIVE CqWalk(_, _, _, _, _)
CqWalk(queries, i, results, add_cq_list, alter_cq_list) ==
    IF i > Len(queries)
    THEN [add |-> add_cq_list, alter |-> alter_cq_list]
    ELSE LET cq == queries[i]
         IN  IF ~CqListed(results, cq.name)
             THEN CqWalk(queries, i + 1, results, Append(add_cq_list, cq), alter_cq_list)
             ELSE IF CqGet(results, cq.name) # cq_to_query(cq)
             THEN CqWalk(queries, i + 1, results, add_cq_list, Append(alter_cq_list, cq))
             ELSE CqWalk(queries, i + 1, results, add_cq_list, alter_cq_list)

CqDropCall(cq) == Call("drop_continuous_query", cq.name, [database |-> DatabaseName])

CqCreateCall(cq) ==
    Call("create_continuous_query", cq.name,
         [select |-> cq.select, database |-> DatabaseName,
          resample_opts |-> cq.resample_opts])

\* Mutant: the queries to alter are created before they are dropped.
CheckCreateCqRun_CreateFirst(c, srv, tr, failAt, err) ==
    LET l == DriverCalls(c, <<Call("get_list_continuous_queries", "", <<>>)>>,
                         1, srv, tr, failAt, err)
    IN  IF l.raised # NoError
        THEN [server |-> srv, trace |-> l.trace, raised |-> ValueError]
        ELSE LET w == CqWalk(catalog[c].cqs, 1, srv.cqs, <<>>, <<>>)
                 add_cq_list == w.add \o w.alter
                 calls == [i \in 1..Len(add_cq_list) |-> CqCreateCall(add_cq_list[i])]
                          \o [i \in 1..Len(w.alter) |-> CqDropCall(w.alter[i])]
                 a == DriverCalls(c, calls, 1, l.server, l.trace, failAt, err)
             IN  [server |-> a.server, trace |-> a.trace,
                  raised |-> IF a.raised = NoError THEN NoError ELSE ValueError]

\* Mutant: the queries of the server that the catalog does not declare are
\* dropped as well.
CheckCreateCqRun_DropUndeclared(c, srv, tr, failAt, err) ==
    LET l == DriverCalls(c, <<Call("get_list_continuous_queries", "", <<>>)>>,
                         1, srv, tr, failAt, err)
    IN  IF l.raised # NoError
        THEN [server |-> srv, trace |-> l.trace, raised |-> ValueError]
        ELSE LET w == CqWalk(catalog[c].cqs, 1, srv.cqs, <<>>, <<>>)
                 add_cq_list == w.add \o w.alter
                 undeclared ==
                     SelectSeq(<<"cq1", "cq2">>,
                               LAMBDA n : /\ CqListed(srv.cqs, n)
                                          /\ \A i \in 1..Len(catalog[c].cqs) :
                                                catalog[c].cqs[i].name # n)
                 calls == [i \in 1..Len(w.alter) |-> CqDropCall(w.alter[i])]
                          \o [i \in 1..Len(undeclared) |->
                                 CqDropCall([name |-> undeclared[i]])]
                          \o [i \in 1..Len(add_cq_list) |-> CqCreateCall(add_cq_list[i])]
                 a == DriverCalls(c, calls, 1, l.server, l.trace, failAt, err)
             IN  [server |-> a.server, trace |-> a.trace,
                  raised |-> IF a.raised = NoError THEN NoError ELSE ValueError]

\* check_create_cq(): every error ends it with ValueError.
CheckCreateCqRun(c, srv, tr, failAt, err) ==
    LET l == DriverCalls(c, <<Call("get_list_continuous_queries", "", <<>>)>>,
                         1, srv, tr, failAt, err)
    IN  IF l.raised # NoError
        THEN [server |-> srv, trace |-> l.trace, raised |-> ValueError]
        ELSE LET w == CqWalk(catalog[c].cqs, 1, srv.cqs, <<>>, <<>>)
                 add_cq_list == w.add \o w.alter
                 calls == [i \in 1..Len(w.alter) |-> CqDropCall(w.alter[i])]
                          \o [i \in 1..Len(add_cq_list) |-> CqCreateCall(add_cq_list[i])]
                 a == DriverCalls(c, calls, 1, l.server, l.trace, failAt, err)
             IN  [server |-> a.server, trace |-> a.trace,
                  raised |-> IF a.raised = NoError THEN NoError ELSE ValueError]

(***************************************************************************)
(* connect and the reconciliation calls.                                   *)
(***************************************************************************)
Errors == {ClientError, ServerError, TransportError}

\* At most this many driver calls in one connect.
MaxDriverCalls == 10

RpCheckFailed == "Retention Policies check failed"
CqCheckFailed == "Continuous Query check failed"
LoginFailed == "Login into influxdb failed"

\* check_create_rp() called on a connected instance
CheckCreateRp(c, failAt, err) ==
    /\ Idle
    /\ client[c] = "open"
    /\ LET r == CheckCreateRpRun(c, server, <<>>, failAt, err)
       IN  /\ server' = r.server
           /\ trace' = r.trace
           /\ converged' = [converged EXCEPT !.rp = (r.raised = NoError)]
           /\ last' = Last("check_create_rp", c, r.raised, insert_buffer,
                           [NoArgs EXCEPT !.converged = converged, !.server = server,
                                          !.message = IF r.raised = NoError THEN ""
                                                      ELSE RpCheckFailed])
    /\ UNCHANGED <<insert_buffer, client, nextId, catalog, written, timeout>>

\* check_create_cq() called on a connected instance
CheckCreateCq(c, failAt, err) ==
    /\ Idle
    /\ client[c] = "open"
    /\ LET r == CheckCreateCqRun(c, server, <<>>, failAt, err)
       IN  /\ server' = r.server
           /\ trace' = r.trace
           /\ converged' = [converged EXCEPT !.cq = (r.raised = NoError)]
           /\ last' = Last("check_create_cq", c, r.raised, insert_buffer,
                           [NoArgs EXCEPT !.converged = converged, !.server = server,
                                          !.message = IF r.raised = NoError THEN ""
                                                      ELSE CqCheckFailed])
    /\ UNCHANGED <<insert_buffer, client, nextId, catalog, written, timeout>>

\* The body of connect(): ping, create_database, check_create_rp, check_create_cq.
ConnectRun(c, srv, failAt, err) ==
    LET p == DriverCalls(c, <<Call("ping", "", <<>>),
                              Call("create_database", DatabaseName, <<>>)>>,
                         1, srv, <<>>, failAt, err)
    IN  IF p.raised # NoError
        THEN [server |-> p.server, trace |-> p.trace, raised |-> ValueError,
              rp |-> FALSE, cq |-> FALSE]
        ELSE LET r == CheckCreateRpRun(c, p.server, p.trace, failAt, err)
             IN  IF r.raised # NoError
                 THEN [server |-> r.server, trace |-> r.trace, raised |-> ValueError,
                       rp |-> FALSE, cq |-> FALSE]
                 ELSE LET q == CheckCreateCqRun(c, r.server, r.trace, failAt, err)
                      IN  [server |-> q.server, trace |-> q.trace,
                           raised |-> IF q.raised = NoError THEN NoError ELSE ValueError,
                           rp |-> TRUE, cq |-> q.raised = NoError]

\* connect()
Connect(c, failAt, err) ==
    /\ Idle
    /\ client[c] \in {"none", "open"}
    /\ LET r == ConnectRun(c, server, failAt, err)
       IN  /\ server' = r.server
           /\ trace' = r.trace
           /\ client' = [client EXCEPT ![c] = "open"]
           /\ converged' = [rp |-> r.rp \/ (converged.rp /\ ~RanRp(r.trace)),
                            cq |-> r.cq \/ (converged.cq /\ ~RanCq(r.trace))]
           /\ last' = Last("connect", c, r.raised, insert_buffer,
                           [NoArgs EXCEPT !.converged = converged, !.server = server,
                                          !.message = IF r.raised = NoError THEN ""
                                                      ELSE LoginFailed])
    /\ timeout' = [timeout EXCEPT ![c] = ConnectTimeout]
    /\ UNCHANGED <<insert_buffer, nextId, catalog, written>>

(***************************************************************************)
(* The connect specification: an instance connects and reconciles the      *)
(* server with its catalog, against a server in any state.                 *)
(***************************************************************************)
\* The catalogs: policies and queries in the order of their names.
RpCatalogs ==
    {<<>>}
    \cup {<<RetentionPolicy("rp1", "1d", d1)>> : d1 \in BOOLEAN}
    \cup {<<RetentionPolicy("rp1", "1d", d[1]), RetentionPolicy("rp2", "1d", d[2])>> :
            d \in [1..2 -> BOOLEAN]}

CqCatalogs ==
    {<<>>, <<ContinuousQuery("cq1", "s1")>>,
     <<ContinuousQuery("cq1", "s1"), ContinuousQuery("cq2", "s1")>>}

\* The server's policies and queries: for every name none or one.
ServerRps ==
    {rs \in SUBSET {ServerRp(n, [duration |-> du, replication |-> 1, default |-> de,
                                 shard_duration |-> "1h"]) :
                       n \in RpNames, du \in RpDurations, de \in BOOLEAN} :
        \A r1, r2 \in rs : r1.name = r2.name => r1 = r2}

ServerCqs ==
    {qs \in SUBSET {ServerCq(n, [select |-> sel, database |-> DatabaseName,
                                 resample_opts |-> ""]) : n \in CqNames, sel \in Selects} :
        \A q1, q2 \in qs : q1.name = q2.name => q1 = q2}

InitConnect ==
    /\ insert_buffer = EmptyBuffer
    /\ client = [c \in Clients |-> "none"]
    /\ nextId = 1
    /\ trace = <<>>
    /\ last = NoCall
    /\ converged = [rp |-> FALSE, cq |-> FALSE]
    /\ written = <<>>
    /\ timeout = [c \in Clients |-> NoTimeout]
    /\ \E rps \in RpCatalogs, cqs \in CqCatalogs, srps \in ServerRps, scqs \in ServerCqs :
         /\ \/ cqs = <<ContinuousQuery("cq1", "s1")>> /\ scqs = {}
            \/ rps = <<RetentionPolicy("rp1", "1d", TRUE)>> /\ srps = {}
         /\ catalog = [c \in Clients |-> IF c = "c1" THEN [rps |-> rps, cqs |-> cqs]
                                                   ELSE NoCatalog]
         /\ server = [rps |-> srps, cqs |-> scqs]

NextConnect ==
    \/ \E failAt \in 0..MaxDriverCalls, err \in Errors : Connect("c1", failAt, err)
    \/ \E failAt \in 0..MaxDriverCalls, err \in Errors : CheckCreateRp("c1", failAt, err)
    \/ \E failAt \in 0..MaxDriverCalls, err \in Errors : CheckCreateCq("c1", failAt, err)
    \/ Return

SpecConnect == InitConnect /\ [][NextConnect]_vars

(***************************************************************************)
(* The safeguard specification: a connected instance ingests rows until    *)
(* the safeguard of insert_dicts_to_buffer trips.                          *)
(***************************************************************************)
IngestMany(c) ==
    \E t \in TableNames, valid \in RowChoices \ {<<>>} :
        /\ nextId + Len(valid) - 1 <= SafeguardMaxId
        /\ t = "B" => nextId = 1 /\ Len(valid) = 1
        /\ InsertDictsToBuffer(c, t, FALSE, valid)

NextSafeguard ==
    \/ IngestMany("c1")
    \/ Return

SpecSafeguard == Init /\ [][NextSafeguard]_vars

(***************************************************************************)
(* The ingest specification: a connected instance calls                    *)
(* insert_dicts_to_buffer with every kind of argument, and flushes.        *)
(***************************************************************************)
\* table_name "" stands for a missing name (None or empty), isNone for
\* list_with_dicts = None.
IngestAny(c) ==
    \E t \in TableNames \cup {""}, isNone \in BOOLEAN, valid \in RowChoices :
        /\ nextId + Len(valid) - 1 <= MaxId
        /\ InsertDictsToBuffer(c, t, isNone, valid)

NextIngest ==
    \/ IngestAny("c1")
    \/ Flush("c1")
    \/ Return

SpecIngest == Init /\ [][NextIngest]_vars

(***************************************************************************)
(* The resend specification: the life of the ingested rows over ingest,    *)
(* flush and query calls.  Of a query only its flush touches ingested      *)
(* rows; its keyword and result shape nothing but its metrics record, so   *)
(* the queries are SELECTs of one table with an empty result.              *)
(***************************************************************************)
QueryOneTable(c) ==
    \E ts \in {<<"A">>, <<"B">>}, o \in Outcomes, d \in Durations :
        /\ Len(BufferGet(insert_buffer, metrics_table(c), <<>>)) < MaxMetrics
        /\ SendSelectionQuery(c, "SELECT", ts, o, 0, d)

NextResend ==
    \/ Ingest("c1")
    \/ Flush("c1")
    \/ QueryOneTable("c1")
    \/ Return

SpecResend == Init /\ [][NextResend]_vars

(***************************************************************************)
(* The two-instance specification: two connected instances of the class    *)
(* ingest and flush.  __insert_buffer is an attribute of the class, which  *)
(* no instance ever rebinds: both instances work on the same dict.         *)
(***************************************************************************)
NextTwo ==
    \/ \E c \in Clients : Ingest(c)
    \/ \E c \in Clients : Flush(c)
    \/ Return

SpecTwo == Init /\ [][NextTwo]_vars

(***************************************************************************)
(* The metrics specification: a connected instance sends selection queries *)
(* of table B one after the other, each leaving its metrics record in the  *)
(* buffer, and ingests rows.                                               *)
(***************************************************************************)
\* A selection query is sent while fewer metrics records than this are pending.
MaxPendingMetrics == 6

QueryMany(c) ==
    \E o \in Outcomes, d \in Durations :
        /\ Len(BufferGet(insert_buffer, metrics_table(c), <<>>)) < MaxPendingMetrics
        /\ SendSelectionQuery(c, "SELECT", <<"B">>, o, 0, d)

NextMetrics ==
    \/ Ingest("c1")
    \/ QueryMany("c1")
    \/ Return

SpecMetrics == Init /\ [][NextMetrics]_vars

(***************************************************************************)
(* The transfer specification: a connected instance transfers the data of  *)
(* an old database, once or several times.                                 *)
(***************************************************************************)
\* At most this many SELECT INTO queries in one transfer_data call.
MaxTransferQueries == 2

Transfer(c) ==
    \E matches \in BOOLEAN, ping1 \in Outcomes, ping2 \in Outcomes,
       outs \in UNION {[1..n -> TransferOutcomes] : n \in 0..MaxTransferQueries} :
        TransferData(c, matches, ping1, outs, ping2)

NextTransfer ==
    \/ Transfer("c1")
    \/ Return

SpecTransfer == Init /\ [][NextTransfer]_vars

(***************************************************************************)
(* Reading the record of a method call.                                    *)
(***************************************************************************)
\* The lines of the pending queries of one buffer entry.
Lines(queries) == [j \in 1..Len(queries) |-> to_query(queries[j])]

\* The flushes recorded in tr, each named by the index of its entry.
FlushEnters(tr) == {a \in 1..Len(tr) : tr[a].ev = "flush_enter"}

FlushExit(tr, a) ==
    CHOOSE b \in a+1..Len(tr) :
        /\ tr[b].ev = "flush_exit"
        /\ \A k \in a+1..b-1 : tr[k].ev # "flush_exit"

\* The write requests of the flush entered at a.
FlushWrites(tr, a) == {j \in a+1..FlushExit(tr, a)-1 : tr[j].ev = "write_points"}

WritesFor(tr, a, table) == {j \in FlushWrites(tr, a) : tr[j].name = table}

CaughtByFlush == {OK, ClientError, ServerError}

(***************************************************************************)
(* C1: in a flush_insert_buffer call whose snapshot holds several tables,  *)
(* and in which the driver's write requests end normally or with a client  *)
(* or server error, exactly one write request is issued for every table of *)
(* the snapshot.                                                           *)
(***************************************************************************)
C1_EveryTableWritten ==
    ( /\ last.op = "flush_insert_buffer"
      /\ Len(last.before) >= 2
      /\ \A j \in FlushWrites(trace, 1) : trace[j].outcome \in CaughtByFlush )
    => \A i \in 1..Len(last.before) :
          Cardinality(WritesFor(trace, 1, last.before[i].table)) = 1

(***************************************************************************)
(* C2: snapshot-then-clear.  In every flush the write requests are the     *)
(* entries of the buffer as it was at the entry of the flush, in order;    *)
(* the first one is issued with the buffer empty, and at each later one    *)
(* the buffer holds nothing but the metrics records this flush has         *)
(* generated so far, one per table already submitted.  So no metrics       *)
(* record of a flush is part of a write request of that flush.             *)
(***************************************************************************)
\* The buffer at the write request of snapshot entry i of the flush entered at a.
FreshBuffer(tr, a, i) ==
    LET buf == tr[a + i].buf
    IN  IF i = 1 THEN buf = EmptyBuffer
        ELSE /\ Len(buf) = 1
             /\ buf[1].table = metrics_table(tr[a].c)
             /\ Len(buf[1].queries) = i - 1
             /\ \A k \in 1..i-1 :
                  /\ buf[1].queries[k].tags = <<INSERT, tr[a].buf[k].table.name>>
                  /\ buf[1].queries[k].fields[2] = Len(tr[a].buf[k].queries)

C2_SnapshotThenClear ==
    \A a \in FlushEnters(trace) :
        \A j \in FlushWrites(trace, a) :
            LET i == j - a
            IN  /\ i <= Len(trace[a].buf)
                /\ trace[j].name = trace[a].buf[i].table
                /\ trace[j].arg = Lines(trace[a].buf[i].queries)
                /\ FreshBuffer(trace, a, i)

\* A flush has issued two write requests and returned: a metrics record was
\* generated between them.
C2_Witness ==
    /\ last.op = "flush_insert_buffer"
    /\ last.raised = NoError
    /\ Cardinality(FlushWrites(trace, 1)) >= 2

(***************************************************************************)
(* C3: send_selection_query flushes before its query request if and only   *)
(* if a target table has pending buffered writes at call time.  When one   *)
(* has, the pending rows of every table are in a write request issued      *)
(* before the query request; when none has, no write request is issued and *)
(* the buffer is untouched at the query request.                           *)
(***************************************************************************)
PendingTarget ==
    \E i \in 1..Len(last.args.tables) :
        BufferGet(last.before, Table(last.c, last.args.tables[i]), <<>>) # <<>>

QueryRequests(tr) == {q \in 1..Len(tr) : tr[q].ev = "query"}

C3_FlushIffTargetPending ==
    last.op = "send_selection_query" =>
        /\ (FlushEnters(trace) # {}) <=> PendingTarget
        /\ \A q \in QueryRequests(trace) :
             IF PendingTarget
             THEN \A i \in 1..Len(last.before) :
                    last.before[i].queries # <<>> =>
                        \E j \in 1..q-1 :
                            /\ trace[j].ev = "write_points"
                            /\ trace[j].name = last.before[i].table
                            /\ trace[j].arg = Lines(last.before[i].queries)
             ELSE /\ \A j \in 1..Len(trace) : trace[j].ev # "write_points"
                  /\ trace[q].buf = last.before

(***************************************************************************)
(* C4: an insert_dicts_to_buffer call on table T triggers no flush if T's  *)
(* pending count after the append is below 5 * max_batch_size; if it is at *)
(* or above, it triggers exactly one flush, which runs to completion       *)
(* before the call returns.                                                *)
(***************************************************************************)
\* T's pending count after the append of the last insert_dicts_to_buffer call.
PendingAfterAppend ==
    LET table == Table(last.c, last.args.table_name)
    IN  Len(BufferGet(last.before, table, <<>>)) + Len(QueryBuffer(table, last.args.rows))

C4_FlushAtThreshold ==
    (last.op = "insert_dicts_to_buffer" /\ last.args.rows # <<>>) =>
        IF PendingAfterAppend < 5 * query_max_batch_size
        THEN FlushEnters(trace) = {}
        ELSE /\ Cardinality(FlushEnters(trace)) = 1
             /\ last.raised = NoError
             /\ Cardinality(FlushWrites(trace, 1)) = Len(last.before) +
                    (IF HasKey(last.before, Table(last.c, last.args.table_name))
                     THEN 0 ELSE 1)

(***************************************************************************)
(* Reading the record of a reconciliation.                                 *)
(***************************************************************************)
RpOps == {"create_retention_policy", "alter_retention_policy"}
CqOps == {"drop_continuous_query", "create_continuous_query"}

\* The driver calls ev of the last method call that name `name`.
OpsOn(ev, name) == {j \in 1..Len(trace) : trace[j].ev = ev /\ trace[j].name = name}

Desired == catalog[last.c]

\* The server's description r states the definition of policy rp.
SameDefinition(r, rp) ==
    /\ r.duration = rp.duration
    /\ r.replicaN = rp.replication
    /\ r.shardGroupDuration = rp.shard_duration
    /\ r.default = rp.default

(***************************************************************************)
(* C5: reconciliation is idempotent.  A check_create_rp run (alone or in   *)
(* connect) that follows a run completed without error issues no create    *)
(* and no alter; a check_create_cq run that follows one completed without  *)
(* error issues no drop and no create.                                     *)
(***************************************************************************)
C5_ReconcileIdempotent ==
    /\ (last.op \in {"check_create_rp", "connect"} /\ last.args.converged.rp)
         => \A j \in 1..Len(trace) : trace[j].ev \notin RpOps
    /\ (last.op \in {"check_create_cq", "connect"} /\ last.args.converged.cq)
         => \A j \in 1..Len(trace) : trace[j].ev \notin CqOps

\* A second connect has run both passes, for a catalog of two policies and
\* a query, after both had completed without error.
C5_Witness ==
    /\ last.op = "connect"
    /\ last.raised = NoError
    /\ last.args.converged = [rp |-> TRUE, cq |-> TRUE]
    /\ Len(Desired.rps) = 2
    /\ Len(Desired.cqs) >= 1
    /\ RanRp(trace) /\ RanCq(trace)

(***************************************************************************)
(* C6: with two desired policies marked default, check_create_rp (called   *)
(* alone or by connect) fails before any server call: no list, create or   *)
(* alter request of retention policies is issued.                          *)
(***************************************************************************)
TwoDefaults(rps) ==
    \E i, j \in 1..Len(rps) : i # j /\ rps[i].default /\ rps[j].default

C6_RejectedBeforeAnyCall ==
    (last.op \in {"check_create_rp", "connect"} /\ TwoDefaults(Desired.rps)) =>
        /\ last.raised = ValueError
        /\ \A j \in 1..Len(trace) :
             trace[j].ev \notin RpOps \cup {"get_list_retention_policies"}

(***************************************************************************)
(* C7: in an error-free check_create_rp run, a desired policy absent on    *)
(* the server gets exactly one create, one whose server description        *)
(* differs from its definition exactly one alter, an equal one nothing;    *)
(* after the run every desired policy is on the server as defined.         *)
(***************************************************************************)
C7_RpConverges ==
    (last.op = "check_create_rp" /\ last.raised = NoError) =>
        \A i \in 1..Len(Desired.rps) :
            LET rp == Desired.rps[i]
                before == {r \in last.args.server.rps : r.name = rp.name}
                creates == OpsOn("create_retention_policy", rp.name)
                alters == OpsOn("alter_retention_policy", rp.name)
            IN  /\ before = {} =>
                     Cardinality(creates) = 1 /\ alters = {}
                /\ (before # {} /\ \E r \in before : ~SameDefinition(r, rp)) =>
                     Cardinality(alters) = 1 /\ creates = {}
                /\ (before # {} /\ \A r \in before : SameDefinition(r, rp)) =>
                     creates = {} /\ alters = {}
                /\ \E r \in server.rps : r.name = rp.name /\ SameDefinition(r, rp)
                /\ \A r \in server.rps : r.name = rp.name => SameDefinition(r, rp)

\* An error-free run has created one policy and altered another.
C7_Witness ==
    /\ last.op = "check_create_rp"
    /\ last.raised = NoError
    /\ \E j \in 1..Len(trace) : trace[j].ev = "create_retention_policy"
    /\ \E j \in 1..Len(trace) : trace[j].ev = "alter_retention_policy"

(***************************************************************************)
(* C8: in check_create_cq every drop request precedes every create         *)
(* request; a desired query absent on the server is never dropped, an      *)
(* equal one is neither dropped nor created, and no query is dropped or    *)
(* created twice.  In a run without error a query whose server string      *)
(* differs from its rendered form gets one drop and then one create, an    *)
(* absent one exactly one create.                                          *)
(***************************************************************************)
C8_DropThenCreate ==
    last.op = "check_create_cq" =>
        /\ \A j, k \in 1..Len(trace) :
             (trace[j].ev = "drop_continuous_query"
                /\ trace[k].ev = "create_continuous_query") => j < k
        /\ \A i \in 1..Len(Desired.cqs) :
             LET cq == Desired.cqs[i]
                 before == {q \in last.args.server.cqs : q.name = cq.name}
                 drops == OpsOn("drop_continuous_query", cq.name)
                 creates == OpsOn("create_continuous_query", cq.name)
                 done == last.raised = NoError
             IN  /\ Cardinality(drops) <= 1 /\ Cardinality(creates) <= 1
                 /\ before = {} =>
                      drops = {} /\ (done => Cardinality(creates) = 1)
                 /\ (before # {} /\ \E q \in before : q.query # cq_to_query(cq)) =>
                      /\ creates # {} => drops # {}
                      /\ done => Cardinality(drops) = 1 /\ Cardinality(creates) = 1
                 /\ (before # {} /\ \A q \in before : q.query = cq_to_query(cq)) =>
                      drops = {} /\ creates = {}

\* A run without error has dropped and re-created one query and created an
\* absent one.
C8_Witness ==
    /\ last.op = "check_create_cq"
    /\ last.raised = NoError
    /\ \E n \in CqNames :
         /\ OpsOn("drop_continuous_query", n) # {}
         /\ OpsOn("create_continuous_query", n) # {}
    /\ \E n \in CqNames :
         /\ OpsOn("drop_continuous_query", n) = {}
         /\ OpsOn("create_continuous_query", n) # {}

(***************************************************************************)
(* C9: connect issues its driver calls in the order ping, create database, *)
(* retention-policy calls, continuous-query calls.  A driver call that     *)
(* fails is the last driver call of the connect, and connect then raises   *)
(* the ValueError 'Login into influxdb failed'; a connect without a        *)
(* failing call runs all four steps.                                       *)
(***************************************************************************)
Step(ev) ==
    IF ev = "ping" THEN 1
    ELSE IF ev = "create_database" THEN 2
    ELSE IF ev \in RpOps \cup {"get_list_retention_policies"} THEN 3
    ELSE 4

C9_ConnectOrderAndAbort ==
    last.op = "connect" =>
        /\ Len(trace) >= 1 /\ trace[1].ev = "ping"
        /\ \A j \in 1..Len(trace) - 1 :
             /\ Step(trace[j].ev) <= Step(trace[j + 1].ev)
             /\ Step(trace[j].ev) <= 2 => Step(trace[j + 1].ev) = Step(trace[j].ev) + 1
             /\ trace[j].outcome = OK
        /\ trace[Len(trace)].outcome # OK =>
             last.raised = ValueError /\ last.args.message = LoginFailed
        /\ (last.raised = NoError) =>
             /\ trace[Len(trace)].outcome = OK
             /\ \A st \in 1..4 : \E j \in 1..Len(trace) : Step(trace[j].ev) = st
        /\ (last.raised # NoError) =>
             last.raised = ValueError /\ last.args.message = LoginFailed

\* A connect has failed in the create request of a retention policy.
C9_Witness ==
    /\ last.op = "connect"
    /\ last.raised = ValueError
    /\ Len(trace) >= 4
    /\ trace[Len(trace)].ev = "create_retention_policy"
    /\ trace[Len(trace)].outcome = ServerError

(***************************************************************************)
(* C10: disconnect performs two flushes and then closes the client; the    *)
(* first flush submits every record pending at the call, the second every  *)
(* metrics record the first has generated.                                 *)
(***************************************************************************)
\* Every pending query of buf is a line of a write request of the flush at a.
Submitted(buf, a) ==
    \A i \in 1..Len(buf) :
        buf[i].queries # <<>> =>
            \E j \in FlushWrites(trace, a) :
                /\ trace[j].name = buf[i].table
                /\ trace[j].arg = Lines(buf[i].queries)

C10_DoubleFlushThenClose ==
    last.op = "disconnect" =>
        /\ Cardinality(FlushEnters(trace)) = 2
        /\ trace[Len(trace)].ev = "close"
        /\ \A a, b \in FlushEnters(trace) :
             a < b => /\ Submitted(last.before, a)
                      /\ Submitted(trace[b].buf, b)
                      /\ trace[b].buf = trace[FlushExit(trace, a)].buf

(***************************************************************************)
(* C11: an error raised during either flush of disconnect (client, server  *)
(* or transport error of a write request, or an error of the flush itself) *)
(* is not raised to the caller of disconnect, and the driver client is     *)
(* closed in every case.                                                   *)
(***************************************************************************)
C11_DisconnectNeverRaises ==
    last.op = "disconnect" =>
        /\ last.raised = NoError
        /\ trace[Len(trace)].ev = "close"
        /\ client[last.c] = "closed"

(***************************************************************************)
(* C12: after disconnect has returned the insert buffer holds no pending   *)
(* record for any table, the metrics table included.                       *)
(***************************************************************************)
C12_DrainedAtShutdown ==
    (last.op = "disconnect" /\ last.raised = NoError) =>
        \A i \in 1..Len(insert_buffer) : insert_buffer[i].queries = <<>>

(***************************************************************************)
(* C13: no record is re-queued or re-sent.  Over every sequence of ingest, *)
(* flush and query calls each ingested row is part of at most one write    *)
(* request, and a row that has been part of a write request, failed or     *)
(* not, is not pending in the buffer afterwards.                           *)
(***************************************************************************)
\* Row id is pending in buf.
Pending(buf, id) ==
    \E i \in 1..Len(buf) : \E k \in 1..Len(buf[i].queries) :
        buf[i].queries[k].fields = <<id>>

C13_NeverResent ==
    \A id \in DOMAIN written :
        /\ written[id].requests <= 1
        /\ written[id].requests >= 1 => ~Pending(insert_buffer, id)

\* A flush issues write requests after an earlier call's write request with
\* the row has failed.
C13_Witness ==
    /\ last.op = "flush_insert_buffer"
    /\ FlushWrites(trace, 1) # {}
    /\ \E id \in DOMAIN written :
         /\ written[id].failed
         /\ RequestsOf(trace, id) = {}

(***************************************************************************)
(* C14: for every table, the lines of its write request are in the order   *)
(* in which the rows were ingested, across the insert_dicts_to_buffer      *)
(* calls between two flushes and inside each call; the pending sequence of *)
(* every table is in that order at all times.                              *)
(***************************************************************************)
\* The identities of the rows of a sequence of lines, in order.
RECURSIVE RowIds(_)
RowIds(lines) ==
    IF lines = <<>> THEN <<>>
    ELSE IF IsRowLine(Head(lines))
         THEN <<RowId(Head(lines))>> \o RowIds(Tail(lines))
         ELSE RowIds(Tail(lines))

\* Rows are numbered in the order of their ingestion.
Ascending(ids) == \A p, q \in 1..Len(ids) : p < q => ids[p] < ids[q]

C14_InsertionOrder ==
    /\ \A j \in 1..Len(trace) :
         trace[j].ev = "write_points" => Ascending(RowIds(trace[j].arg))
    /\ \A i \in 1..Len(insert_buffer) :
         Ascending(RowIds(Lines(insert_buffer[i].queries)))

\* A write request holds the rows of earlier calls and then the two rows of
\* the call that has triggered the flush.
C14_Witness ==
    /\ last.op = "insert_dicts_to_buffer"
    /\ Len(QueryBuffer(Table(last.c, last.args.table_name), last.args.rows)) = 2
    /\ \E j \in 1..Len(trace) :
         /\ trace[j].ev = "write_points"
         /\ Len(trace[j].arg) >= 4
         /\ RowIds(trace[j].arg) =
              RowIds(Lines(BufferGet(last.before, trace[j].name, <<>>)))
              \o [k \in 1..2 |-> last.args.rows[k].id]

(***************************************************************************)
(* C15: a flush of the empty buffer issues no write request, appends no    *)
(* metrics record and leaves the buffer empty.  After every flush the      *)
(* buffer holds nothing but metrics records this flush has generated, so   *)
(* of two consecutive flushes the second issues write requests for the     *)
(* metrics records of the first only.                                      *)
(***************************************************************************)
\* buf holds nothing but metrics records the flush entered at a has
\* generated: the k-th record is the one of its k-th write request.
MetricsOf(buf, tr, a) ==
    \/ buf = EmptyBuffer
    \/ /\ Len(buf) = 1
       /\ buf[1].table = metrics_table(tr[a].c)
       /\ Len(buf[1].queries) <= Cardinality(FlushWrites(tr, a))
       /\ \A k \in 1..Len(buf[1].queries) :
            /\ buf[1].queries[k].tags = <<INSERT, tr[a + k].name.name>>
            /\ buf[1].queries[k].fields[2] = Len(tr[a + k].arg)

C15_FlushIdempotentOnEmpty ==
    /\ \A a \in FlushEnters(trace) :
         LET x == FlushExit(trace, a)
         IN  /\ trace[a].buf = EmptyBuffer =>
                  x = a + 1 /\ trace[x].buf = EmptyBuffer /\ trace[x].outcome = NoError
             /\ MetricsOf(trace[x].buf, trace, a)
             /\ \A b \in FlushEnters(trace) :
                  b > a =>
                    /\ trace[b].buf = trace[x].buf
                    /\ \A j \in FlushWrites(trace, b) :
                         /\ trace[j].name = metrics_table(trace[a].c)
                         /\ trace[j].arg = Lines(trace[x].buf[1].queries)
    /\ last.op = "flush_insert_buffer" =>
         insert_buffer = trace[FlushExit(trace, 1)].buf

\* The second flush of a disconnect has written the metrics records the
\* first has generated for two tables.
C15_Witness ==
    /\ last.op = "disconnect"
    /\ Len(last.before) >= 2
    /\ \E a, b \in FlushEnters(trace) : a < b /\ FlushWrites(trace, b) # {}

(***************************************************************************)
(* C16: after a flush_insert_buffer call has returned, the buffer holds    *)
(* for every table of the snapshot exactly one metrics record, with        *)
(* keyword INSERT, the table's name and the number of lines submitted for  *)
(* it, whether the write request succeeded or failed; it holds nothing     *)
(* else.                                                                   *)
(***************************************************************************)
C16_OneMetricsRecordPerTable ==
    (last.op = "flush_insert_buffer" /\ last.raised = NoError) =>
        IF last.before = EmptyBuffer
        THEN insert_buffer = EmptyBuffer
        ELSE /\ Len(insert_buffer) = 1
             /\ insert_buffer[1].table = metrics_table(last.c)
             /\ Len(insert_buffer[1].queries) = Len(last.before)
             /\ \A k \in 1..Len(last.before) :
                  LET j == CHOOSE w \in FlushWrites(trace, 1) :
                               trace[w].name = last.before[k].table
                  IN  /\ insert_buffer[1].queries[k].tags =
                            <<INSERT, last.before[k].table.name>>
                      /\ insert_buffer[1].queries[k].fields[2] = Len(trace[j].arg)
                      /\ Len(trace[j].arg) = Len(last.before[k].queries)

\* A flush of two tables has returned after the write request of one of
\* them had failed.
C16_Witness ==
    /\ last.op = "flush_insert_buffer"
    /\ last.raised = NoError
    /\ Len(last.before) = 2
    /\ \E j, k \in FlushWrites(trace, 1) :
         trace[j].outcome = OK /\ trace[k].outcome \in {ClientError, ServerError}

(***************************************************************************)
(* C17: the duration_ms values recorded for one operation are the measured *)
(* total apportioned by item count: for a write request of a flush and for *)
(* the query request of send_selection_query they sum to the measured      *)
(* duration, and no record exceeds it.                                     *)
(***************************************************************************)
RECURSIVE SumDurations(_)
SumDurations(queries) ==
    IF queries = <<>> THEN 0
    ELSE Head(queries).fields[1] + SumDurations(Tail(queries))

\* The last n metrics records pending in buf.
NewMetrics(buf, c, n) ==
    LET ms == BufferGet(buf, metrics_table(c), <<>>)
    IN  SubSeq(ms, Len(ms) - n + 1, Len(ms))

C17_DurationsSumToTotal ==
    /\ \A j \in 1..Len(trace) - 1 :
         ( /\ trace[j].ev = "write_points"
           /\ trace[j + 1].ev = "write_points" \/ trace[j + 1].outcome = NoError )
         => LET new == NewMetrics(trace[j + 1].buf, trace[j].c, 1)
            IN  /\ Len(new) = 1
                /\ SumDurations(new) = trace[j].duration
    /\ (last.op = "send_selection_query" /\ last.raised = NoError) =>
         LET q == trace[Len(trace)]
             new == NewMetrics(insert_buffer, last.c, Len(last.args.tables))
         IN  /\ Len(new) = Len(last.args.tables)
             /\ SumDurations(new) = q.duration
             /\ \A k \in 1..Len(new) : new[k].fields[1] <= q.duration

(***************************************************************************)
(* C18: when the driver's query call fails with a client, server or        *)
(* transport error, send_selection_query raises nothing, returns an empty  *)
(* result, and appends for every queried table a metrics record with the   *)
(* query's keyword and item_count 0.                                       *)
(***************************************************************************)
C18_QueryErrorSwallowed ==
    ( /\ last.op = "send_selection_query"
      /\ \E q \in QueryRequests(trace) : trace[q].outcome # OK )
    => /\ last.raised = NoError
       /\ last.args.length = 0
       /\ LET new == NewMetrics(insert_buffer, last.c, Len(last.args.tables))
          IN  /\ Len(new) = Len(last.args.tables)
              /\ \A k \in 1..Len(new) :
                   /\ new[k].tags = <<last.args.keyword, last.args.tables[k]>>
                   /\ new[k].fields[2] = 0

(***************************************************************************)
(* C19: in insert_dicts_to_buffer a row that fails classification is       *)
(* skipped alone: the call does not raise, and every other row of the call *)
(* is appended to the table's pending sequence, in input order, after the  *)
(* records already pending for that table.                                 *)
(***************************************************************************)
\* The queries of the rows of the call that pass classification, in input order.
AcceptedQueries(table, rows) ==
    LET ok == SelectSeq(rows, LAMBDA r : r.valid)
    IN  [k \in 1..Len(ok) |-> InsertQuery(table, <<ok[k].id>>, <<>>)]

\* The buffer after the append of the last insert_dicts_to_buffer call: the
\* one the safeguard flush has entered with, if it has run.
BufferAfterAppend ==
    IF FlushEnters(trace) = {} THEN insert_buffer ELSE trace[1].buf

C19_FailingRowSkippedAlone ==
    ( /\ last.op = "insert_dicts_to_buffer"
      /\ last.args.table_name # ""
      /\ \E k \in 1..Len(last.args.rows) : ~last.args.rows[k].valid )
    => LET table == Table(last.c, last.args.table_name)
       IN  /\ last.raised = NoError
           /\ BufferGet(BufferAfterAppend, table, <<>>) =
                BufferGet(last.before, table, <<>>)
                \o AcceptedQueries(table, last.args.rows)

(***************************************************************************)
(* C20: insert_dicts_to_buffer leaves the buffer unchanged and issues no   *)
(* driver call in its degenerate cases: an empty row sequence returns      *)
(* normally (no key is created for the table), a missing table name or a   *)
(* null row sequence raises ValueError.                                    *)
(***************************************************************************)
C20_DegenerateInsert ==
    ( /\ last.op = "insert_dicts_to_buffer"
      /\ last.args.isNone \/ last.args.table_name = "" \/ last.args.rows = <<>> )
    => /\ insert_buffer = last.before
       /\ trace = <<>>
       /\ last.raised = IF last.args.isNone \/ last.args.table_name = ""
                        THEN ValueError ELSE NoError

\* An empty list was given for a table that is not a key of the non-empty
\* buffer, and the call has returned.
C20_Witness ==
    /\ last.op = "insert_dicts_to_buffer"
    /\ ~last.args.isNone
    /\ last.args.table_name # ""
    /\ last.args.rows = <<>>
    /\ last.raised = NoError
    /\ last.before # EmptyBuffer
    /\ ~HasKey(last.before, Table(last.c, last.args.table_name))

(***************************************************************************)
(* C21: a transport error of the write request of one table is handled     *)
(* like every failure of one table: flush_insert_buffer does not raise it, *)
(* the other tables of the snapshot are still submitted, and the failed    *)
(* table gets its metrics record.                                          *)
(***************************************************************************)
C21_TransportErrorHandled ==
    ( /\ last.op = "flush_insert_buffer"
      /\ \E j \in FlushWrites(trace, 1) : trace[j].outcome = TransportError )
    => /\ last.raised = NoError
       /\ \A i \in 1..Len(last.before) :
            WritesFor(trace, 1, last.before[i].table) # {}
       /\ \A j \in FlushWrites(trace, 1) :
            trace[j].outcome = TransportError =>
                \E k \in 1..Len(BufferGet(insert_buffer, metrics_table(last.c), <<>>)) :
                    BufferGet(insert_buffer, metrics_table(last.c), <<>>)[k].tags
                        = <<INSERT, trace[j].name.name>>

(***************************************************************************)
(* C24: every table that is a key of the insert buffer has at least one    *)
(* pending record, in every reachable state; hence flush_insert_buffer     *)
(* never issues a write request with zero lines, never records a metric    *)
(* with batch size 0 and never raises ValueError.                          *)
(***************************************************************************)
C24_NoEmptyKey ==
    /\ \A i \in 1..Len(insert_buffer) : insert_buffer[i].queries # <<>>
    /\ \A j \in 1..Len(trace) :
         /\ trace[j].ev = "write_points" => trace[j].arg # <<>>
         /\ trace[j].ev = "flush_exit" => trace[j].outcome # ValueError

(***************************************************************************)
(* C25: the insert buffer is owned by one instance.  A call on one         *)
(* instance leaves the pending records of the tables of the other instance *)
(* as they were and issues no write request for them.                      *)
(***************************************************************************)
\* The entries of buf whose table belongs to another instance than c.
OthersEntries(buf, c) == SelectSeq(buf, LAMBDA e : e.table.owner # c)

C25_BufferPerInstance ==
    last.op # "" =>
        /\ OthersEntries(insert_buffer, last.c) = OthersEntries(last.before, last.c)
        /\ \A j \in 1..Len(trace) :
             trace[j].ev = "write_points" => trace[j].name.owner = last.c

(***************************************************************************)
(* C22: the memory safeguard bounds every table.  Whenever                 *)
(* insert_dicts_to_buffer returns, no table of the buffer, the metrics     *)
(* table included, holds more than 5 * max_batch_size pending records.     *)
(***************************************************************************)
C22_SafeguardBoundsEveryTable ==
    (last.op = "insert_dicts_to_buffer" /\ last.raised = NoError) =>
        \A i \in 1..Len(insert_buffer) :
            Len(insert_buffer[i].queries) <= 5 * query_max_batch_size

(***************************************************************************)
(* C26: reconciliation touches the names of the desired set only.  Every   *)
(* create and alter of check_create_rp names a retention policy of the     *)
(* catalog, every drop and create of check_create_cq a continuous query of *)
(* the catalog; the policies and queries of the server that the catalog    *)
(* does not declare are on the server afterwards as they were before.      *)
(***************************************************************************)
DesiredRpNames == {Desired.rps[i].name : i \in 1..Len(Desired.rps)}
DesiredCqNames == {Desired.cqs[i].name : i \in 1..Len(Desired.cqs)}

C26_OnlyDesiredTouched ==
    last.op \in {"check_create_rp", "check_create_cq", "connect"} =>
        /\ \A j \in 1..Len(trace) :
             /\ trace[j].ev \in RpOps => trace[j].name \in DesiredRpNames
             /\ trace[j].ev \in CqOps => trace[j].name \in DesiredCqNames
        /\ {r \in server.rps : r.name \notin DesiredRpNames}
             = {r \in last.args.server.rps : r.name \notin DesiredRpNames}
        /\ {q \in server.cqs : q.name \notin DesiredCqNames}
             = {q \in last.args.server.cqs : q.name \notin DesiredCqNames}

\* A check_create_cq run has dropped and re-created a declared query while
\* the server held a query the catalog does not declare.
C26_Witness ==
    /\ last.op = "check_create_cq"
    /\ last.raised = NoError
    /\ \E q \in last.args.server.cqs : q.name \notin DesiredCqNames
    /\ \E j \in 1..Len(trace) : trace[j].ev = "drop_continuous_query"
    /\ \E j \in 1..Len(trace) : trace[j].ev = "create_continuous_query"

(***************************************************************************)
(* C23: transfer_data overrides the timeout of the driver client only      *)
(* temporarily: on every way out of the call, normal return or raised      *)
(* error, the timeout is the one the client had before the call.           *)
(***************************************************************************)
C23_TimeoutRestored ==
    last.op = "transfer_data" => timeout[last.c] = last.args.timeout

====
